---- MODULE Spec2Model ----
(***************************************************************************)
(* Model of blacksheep/server/routing.py: the pattern compiler, Route,     *)
(* RouteMatch and Router.                                                  *)
(*                                                                         *)
(* Byte strings are sequences of one-character strings.  The alphabet of   *)
(* the patterns and paths used here is  / : * { } a b A B  so that every   *)
(* character the compiler does not rewrite is a literal of the regular     *)
(* expression (no digit follows a brace, so a brace is a literal too).     *)
(***************************************************************************)
EXTENDS Integers, Sequences, FiniteSets, TLC

VARIABLES routes, fallback, last, registered

vars == <<routes, fallback, last, registered>>

(***************************************************************************)
(* Bounds and input sets                                                   *)
(***************************************************************************)
MaxRoutes == 2

\* "*" is the any-method bucket of add_any
Methods == {"GET", "*"}

Handlers == {"h1", "obj"}

Patterns ==
    { <<"/", "a">>, <<"/", "A">>, <<"/", "a", "/">>, <<"/", ":", "a">>,
      <<"*">>, <<"*", "*">> }

Paths == { <<"/", "a">>, <<"/", "A">>, <<"/", "a", "/">>, <<"/", "b">> }

(***************************************************************************)
(* bytes.lower()                                                           *)
(***************************************************************************)
LowerChar(c) == IF c = "A" THEN "a" ELSE IF c = "B" THEN "b" ELSE c

lower(s) == [i \in 1..Len(s) |-> LowerChar(s[i])]

Contains(s, c) == \E i \in 1..Len(s) : s[i] = c

(***************************************************************************)
(* Handlers are opaque values; two facts about a value are visible to the  *)
(* code: callable(value) and whether it has a __name__ attribute.          *)
(* h1 is a function, obj is a plain object.                                *)
(***************************************************************************)
callable(h) == h = "h1"

has_name(h) == h = "h1"

(***************************************************************************)
(* _get_regex_for_pattern: the compiled expression is a sequence of tokens *)
(*   lit c      the (escaped or plain) literal character c                 *)
(*   tail       (?P<tail>.+)        from  *                                *)
(*   seg name   (?P<name>[^\/]+)    from  /:name  (the / stays a literal)  *)
(***************************************************************************)
Lit(c) == [t |-> "lit", c |-> c, name |-> <<>>]

TailTok == [t |-> "tail", c |-> "", name |-> <<"t", "a", "i", "l">>]

SegTok(n) == [t |-> "seg", c |-> "", name |-> n]

\* length of the longest run of non-slash characters of p starting at i
RECURSIVE NameLen(_, _)
NameLen(p, i) ==
    IF i > Len(p) \/ p[i] = "/" THEN 0 ELSE 1 + NameLen(p, i + 1)

\* _route_all_rx.sub and _route_param_rx.sub, left to right from position i
RECURSIVE Tokens(_, _)
Tokens(p, i) ==
    IF i > Len(p) THEN <<>>
    ELSE IF p[i] = "/" /\ i + 1 <= Len(p) /\ p[i + 1] = ":" /\ NameLen(p, i + 2) > 0
         THEN LET n == NameLen(p, i + 2)
              IN  <<Lit("/"), SegTok(SubSeq(p, i + 2, i + 1 + n))>> \o Tokens(p, i + 2 + n)
    ELSE IF p[i] = "*" THEN <<TailTok>> \o Tokens(p, i + 1)
    ELSE <<Lit(p[i])>> \o Tokens(p, i + 1)

GroupNames(toks) == SelectSeq(toks, LAMBDA t : t.t # "lit")

\* variant of the loop that compares a name with the previous one only
RepeatedName_adjacent(toks) ==
    LET g == GroupNames(toks)
    IN  \E i \in 1..(Len(g) - 1) : g[i].name = g[i + 1].name

\* variant of the loop that looks at the /:name groups only
RepeatedName_segments(toks) ==
    LET g == SelectSeq(toks, LAMBDA t : t.t = "seg")
    IN  \E i, j \in 1..Len(g) : i < j /\ g[i].name = g[j].name

\* the loop over _named_group_rx.finditer: a name met twice raises ValueError
RepeatedName(toks) ==
    LET g == GroupNames(toks)
    IN  \E i, j \in 1..Len(g) : i < j /\ g[i].name = g[j].name

\* re.compile rejects a group name that is not an identifier
IdentChar(c) == c \in {"a", "b", "t", "i", "l", "_"}

BadGroupName(toks) ==
    \E k \in 1..Len(toks) :
        toks[k].t = "seg" /\ \E i \in 1..Len(toks[k].name) : ~IdentChar(toks[k].name[i])

\* outcome of _get_regex_for_pattern(pattern): "ok" or the exception raised
CompileError(p) ==
    LET toks == Tokens(p, 1)
    IN  IF RepeatedName(toks) THEN "ValueError"
        ELSE IF BadGroupName(toks) THEN "re.error"
        ELSE "ok"

(***************************************************************************)
(* re match of ^tokens$ with IGNORECASE against v: greedy, backtracking.   *)
(* The result is [ok, groups]; groups is the groupdict in pattern order.   *)
(***************************************************************************)
NoRx == [ok |-> FALSE, groups |-> <<>>]

RECURSIVE rx_match(_, _), rx_try(_, _, _)
rx_match(toks, v) ==
    IF toks = <<>> THEN (IF v = <<>> THEN [ok |-> TRUE, groups |-> <<>>] ELSE NoRx)
    ELSE IF Head(toks).t = "lit"
         THEN IF v # <<>> /\ LowerChar(Head(v)) = LowerChar(Head(toks).c)
              THEN rx_match(Tail(toks), Tail(v))
              ELSE NoRx
    ELSE rx_try(toks, v, Len(v))

\* the group at the head of toks takes the first k characters of v, k downwards
rx_try(toks, v, k) ==
    IF k < 1 THEN NoRx
    ELSE LET t    == Head(toks)
             fits == t.t = "tail" \/ \A i \in 1..k : v[i] # "/"
             rest == IF fits THEN rx_match(Tail(toks), SubSeq(v, k + 1, Len(v))) ELSE NoRx
         IN  IF rest.ok
             THEN [ok |-> TRUE,
                   groups |-> <<[name |-> t.name, value |-> SubSeq(v, 1, k)]>> \o rest.groups]
             ELSE rx_try(toks, v, k - 1)

(***************************************************************************)
(* Route                                                                   *)
(***************************************************************************)
\* Route.__init__: b'' becomes b'/', then the pattern is lower-cased
Route_pattern(pattern) == lower(IF pattern = <<>> THEN <<"/">> ELSE pattern)

\* the object ... given in place of a pattern
Ellipsis == <<"...">>

\* outcome of Route(pattern, handler): "ok" or the exception raised; a pattern
\* that is neither str nor bytes has no lower()
Route_error(pattern) ==
    IF pattern = Ellipsis THEN "AttributeError" ELSE CompileError(Route_pattern(pattern))

Route(pattern, handler) ==
    LET p == Route_pattern(pattern)
    IN  [pattern |-> p, handler |-> handler,
         has_params |-> Contains(p, "*") \/ Contains(p, ":")]

Route_rx(route) == Tokens(route.pattern, 1)

(***************************************************************************)
(* RouteMatch: handler and values; has_values is FALSE when values is None *)
(* and None is the result "no match".                                      *)
(***************************************************************************)
None == [found |-> FALSE, handler |-> "", has_values |-> FALSE, values |-> <<>>]

RouteMatch(route, has_values, values) ==
    [found |-> TRUE, handler |-> route.handler, has_values |-> has_values, values |-> values]

Route_match(route, value) ==
    IF ~route.has_params /\ lower(value) = route.pattern
    THEN RouteMatch(route, FALSE, <<>>)
    ELSE LET m == rx_match(Route_rx(route), value)
         IN  IF ~m.ok THEN None
             ELSE IF route.has_params THEN RouteMatch(route, TRUE, m.groups)
             ELSE RouteMatch(route, FALSE, <<>>)

(***************************************************************************)
(* Router.routes is a defaultdict(list): a sequence of entries [key, list] *)
(* in insertion order.  Reading a missing key inserts it with an empty     *)
(* list.                                                                   *)
(***************************************************************************)
HasKey(d, k) == \E i \in 1..Len(d) : d[i].key = k

\* the list stored under k (empty when k is missing)
Items(d, k) == IF HasKey(d, k) THEN d[CHOOSE i \in 1..Len(d) : d[i].key = k].list ELSE <<>>

\* the dict after evaluating d[k]
Touch(d, k) == IF HasKey(d, k) THEN d ELSE Append(d, [key |-> k, list |-> <<>>])

\* variant of add_route that inserts the route at the head of the list
add_route_first(d, method, route) ==
    LET t == Touch(d, method)
    IN  [i \in 1..Len(t) |->
            IF t[i].key = method THEN [t[i] EXCEPT !.list = <<route>> \o @] ELSE t[i]]

\* Router.add_route: self.routes[method].append(route)
add_route(d, method, route) ==
    LET t == Touch(d, method)
    IN  [i \in 1..Len(t) |->
            IF t[i].key = method THEN [t[i] EXCEPT !.list = Append(@, route)] ELSE t[i]]

\* the lists of all keys, in key order
RECURSIVE Flatten(_)
Flatten(d) == IF d = <<>> THEN <<>> ELSE Head(d).list \o Flatten(Tail(d))

RECURSIVE TotalRoutes(_)
TotalRoutes(d) == IF d = <<>> THEN 0 ELSE Len(Head(d).list) + TotalRoutes(Tail(d))

(***************************************************************************)
(* Router.get_match: the value returned (the read of self.routes[method]   *)
(* is the state change of the action GetMatch below)                       *)
(***************************************************************************)
RECURSIVE first_match(_, _)
first_match(list, value) ==
    IF list = <<>> THEN None
    ELSE LET m == Route_match(Head(list), value)
         IN  IF m.found THEN m ELSE first_match(Tail(list), value)

\* variants of get_match with a plausible slip, used to test the properties below
Reverse(list) == [i \in 1..Len(list) |-> list[Len(list) + 1 - i]]

get_match_last_wins(rts, fb, method, value) ==
    LET m == first_match(Reverse(Items(rts, method)), value)
    IN  IF m.found THEN m
        ELSE IF fb # <<>> THEN RouteMatch(fb[1], FALSE, <<>>)
        ELSE None

get_match_all_methods(rts, fb, method, value) ==
    LET m == first_match(Flatten(rts), value)
    IN  IF m.found THEN m
        ELSE IF fb # <<>> THEN RouteMatch(fb[1], FALSE, <<>>)
        ELSE None

get_match_then_any(rts, fb, method, value) ==
    LET m == first_match(Items(rts, method) \o Items(rts, "*"), value)
    IN  IF m.found THEN m
        ELSE IF fb # <<>> THEN RouteMatch(fb[1], FALSE, <<>>)
        ELSE None

get_match_fallback_match(rts, fb, method, value) ==
    LET m == first_match(Items(rts, method), value)
    IN  IF m.found THEN m
        ELSE IF fb # <<>> THEN Route_match(fb[1], value)
        ELSE None

get_match(rts, fb, method, value) ==
    LET m == first_match(Items(rts, method), value)
    IN  IF m.found THEN m
        ELSE IF fb # <<>> THEN RouteMatch(fb[1], FALSE, <<>>)
        ELSE None

\* RouteDuplicate.__init__ reads current_handler.__name__
RouteDuplicate(current_handler) ==
    IF has_name(current_handler) THEN "RouteDuplicate" ELSE "AttributeError"

\* outcome of Router.add(method, pattern, handler): "ok" or the exception raised
add_outcome(rts, fb, method, pattern, handler) ==
    IF Route_error(pattern) # "ok" THEN Route_error(pattern)
    ELSE LET current_match == get_match(rts, fb, method, Route_pattern(pattern))
         IN  IF current_match.found THEN RouteDuplicate(current_match.handler) ELSE "ok"

\* Router.routes after Router.add(method, pattern, handler)
add_routes(rts, fb, method, pattern, handler) ==
    IF Route_error(pattern) # "ok" THEN rts
    ELSE IF add_outcome(rts, fb, method, pattern, handler) # "ok" THEN Touch(rts, method)
    ELSE add_route(rts, method, Route(pattern, handler))

\* Router.__iter__: the routes of every key in key order, then the fallback
Router_iter(rts, fb) == Flatten(rts) \o fb

(***************************************************************************)
(* Values assigned to Router.fallback: a pre-built Route, or any other     *)
(* value (a handler, callable or not).                                     *)
(***************************************************************************)
PrebuiltRoutes == {Route(<<"/", "a">>, "obj")}

FallbackValues ==
    {[is_route |-> TRUE, route |-> r, value |-> ""] : r \in PrebuiltRoutes}
    \cup {[is_route |-> FALSE, route |-> Route(<<"*">>, h), value |-> h] : h \in Handlers}

\* outcome of the fallback setter
fallback_outcome(v) == IF ~v.is_route /\ ~callable(v.value) THEN "ValueError" ELSE "ok"

\* variant of the setter that drops the fallback when it rejects a value
fallback_set_clearing(fb, v) ==
    IF ~v.is_route
    THEN IF callable(v.value) THEN <<Route(<<"*">>, v.value)>> ELSE <<>>
    ELSE <<v.route>>

\* Router._fallback after the setter (<<>> is None)
fallback_set(fb, v) ==
    IF ~v.is_route
    THEN IF callable(v.value) THEN <<Route(<<"*">>, v.value)>> ELSE fb
    ELSE <<v.route>>

(***************************************************************************)
(* State machine.  last is the last call and its outcome; registered is a  *)
(* history variable: the methods in the order of their first successful    *)
(* registration.                                                           *)
(***************************************************************************)
Init ==
    /\ routes = <<>>
    /\ fallback = <<>>
    /\ last = [op |-> "init", outcome |-> "ok"]
    /\ registered = <<>>

Add(method, pattern, handler) ==
    LET outcome == add_outcome(routes, fallback, method, pattern, handler)
    IN  /\ outcome = "ok" => TotalRoutes(routes) < MaxRoutes
        /\ routes' = add_routes(routes, fallback, method, pattern, handler)
        /\ last' = [op |-> "add", outcome |-> outcome]
        /\ registered' = IF outcome = "ok" /\ \A i \in 1..Len(registered) : registered[i] # method
                         THEN Append(registered, method) ELSE registered
        /\ UNCHANGED fallback

SetFallback(v) ==
    /\ fallback' = fallback_set(fallback, v)
    /\ last' = [op |-> "set_fallback", outcome |-> fallback_outcome(v)]
    /\ UNCHANGED <<routes, registered>>

GetMatch(method, value) ==
    /\ routes' = Touch(routes, method)
    /\ last' = [op |-> "get_match",
                outcome |-> IF get_match(routes, fallback, method, value).found
                            THEN "RouteMatch" ELSE "None"]
    /\ UNCHANGED <<fallback, registered>>

Iter ==
    /\ last' = [op |-> "iter", outcome |-> "ok"]
    /\ UNCHANGED <<routes, fallback, registered>>

Next ==
    \/ \E m \in Methods, p \in Patterns, h \in Handlers : Add(m, p, h)
    \/ \E v \in FallbackValues : SetFallback(v)
    \/ \E m \in Methods, v \in Paths : GetMatch(m, v)
    \/ Iter

Spec == Init /\ [][Next]_vars

(***************************************************************************)
(* Properties                                                              *)
(***************************************************************************)
Bucket(m) == Items(routes, m)

Matches(m, i, v) == Route_match(Bucket(m)[i], v).found

NoneMatches(m, v) == \A i \in 1..Len(Bucket(m)) : ~Matches(m, i, v)

\* C1: get_match returns the match of the first route, in registration
\* order, of the method's sequence that matches the path: when routes i < j
\* both match, the result is the match of i.
C1_FirstMatchWins ==
    \A m \in Methods, v \in Paths :
        \A j \in 1..Len(Bucket(m)) :
            (Matches(m, j, v) /\ \A i \in 1..(j - 1) : ~Matches(m, i, v))
                => get_match(routes, fallback, m, v) = Route_match(Bucket(m)[j], v)

C1_Witness ==
    /\ last.op = "get_match"
    /\ last.outcome = "RouteMatch"
    /\ \E m \in Methods, v \in Paths :
        \E i, j \in 1..Len(Bucket(m)) :
            /\ i < j
            /\ Matches(m, i, v)
            /\ Matches(m, j, v)
            /\ Bucket(m)[i].handler # Bucket(m)[j].handler
            /\ get_match(routes, fallback, m, v).handler = Bucket(m)[i].handler

\* the normalized pattern of the specification: lower-cased, trailing slashes
\* collapsed (the root stays "/")
RECURSIVE StripSlashes(_)
StripSlashes(s) ==
    IF Len(s) > 1 /\ s[Len(s)] = "/" THEN StripSlashes(SubSeq(s, 1, Len(s) - 1)) ELSE s

Normalized(p) == StripSlashes(lower(IF p = <<>> THEN <<"/">> ELSE p))

AllNamed ==
    /\ \A r \in {Flatten(routes)[i] : i \in 1..Len(Flatten(routes))} : has_name(r.handler)
    /\ fallback # <<>> => has_name(fallback[1].handler)

\* C2: registering a pattern whose normalized form (lower-case, trailing
\* slashes collapsed) equals that of a route already registered for the
\* method raises RouteDuplicate.  Stated for routers whose handlers are
\* functions, as in the tests.
C2_DuplicateRaised ==
    AllNamed =>
        \A m \in Methods, p \in Patterns, h \in Handlers :
            \A i \in 1..Len(Bucket(m)) :
                (Route_error(p) = "ok" /\ Normalized(p) = Normalized(Bucket(m)[i].pattern))
                    => add_outcome(routes, fallback, m, p, h) = "RouteDuplicate"

\* C3: a Router.add call that fails leaves the mapping from method to route
\* sequence (its keys included) and the fallback as they were.
C3_FailedAddNoChange ==
    [][(last'.op = "add" /\ last'.outcome # "ok") => (routes' = routes /\ fallback' = fallback)]_vars

\* C4: with a fallback set, Router.add succeeds whenever no route of the
\* method's sequence matches the new route's normalized pattern.
C4_FallbackNotDuplicate ==
    fallback # <<>> =>
        \A m \in Methods, p \in Patterns, h \in Handlers :
            (Route_error(p) = "ok" /\ NoneMatches(m, Route_pattern(p)))
                => add_outcome(routes, fallback, m, p, h) = "ok"

\* C5: a registration never fails as a duplicate because of a route of
\* another method: whenever Router.add ends in the duplicate branch, a route
\* of the same method matches the new pattern, or a fallback is set.
C5_OtherMethodNoDuplicate ==
    \A m \in Methods, p \in Patterns, h \in Handlers :
        add_outcome(routes, fallback, m, p, h) \in {"RouteDuplicate", "AttributeError"}
            => (~NoneMatches(m, Route_pattern(p)) \/ fallback # <<>>)

C5_Witness ==
    /\ last.op = "add"
    /\ last.outcome = "ok"
    /\ \E m1, m2 \in Methods :
        /\ m1 # m2
        /\ \E i \in 1..Len(Bucket(m1)), j \in 1..Len(Bucket(m2)) :
            Bucket(m1)[i].pattern = Bucket(m2)[j].pattern

\* C6: get_match leaves the router's whole state unchanged.
C6_GetMatchReadOnly ==
    [][last'.op = "get_match" => (routes' = routes /\ fallback' = fallback)]_vars

\* C7: when no route of the method's sequence matches the path, get_match
\* returns the fallback's handler without values if a fallback is set, and
\* no match otherwise.
C7_FallbackOrNone ==
    \A m \in Methods, v \in Paths :
        NoneMatches(m, v) =>
            LET r == get_match(routes, fallback, m, v)
            IN  IF fallback # <<>>
                THEN r.found /\ r.handler = fallback[1].handler /\ ~r.has_values
                ELSE ~r.found

C7_Witness ==
    /\ last.op = "get_match"
    /\ last.outcome = "RouteMatch"
    /\ fallback # <<>>
    /\ \E m \in Methods, v \in Paths :
        /\ Bucket(m) # <<>>
        /\ NoneMatches(m, v)
        /\ get_match(routes, fallback, m, v).handler = fallback[1].handler

\* C8: with no fallback, the handler returned by get_match(m, path) is the
\* handler of a route of m's own sequence that matches the path; a path that
\* matches only routes of other methods yields no match.
C8_MethodIsolation ==
    fallback = <<>> =>
        \A m \in Methods, v \in Paths :
            LET r == get_match(routes, fallback, m, v)
            IN  r.found =>
                    \E i \in 1..Len(Bucket(m)) :
                        Matches(m, i, v) /\ Bucket(m)[i].handler = r.handler

C8_Witness ==
    /\ fallback = <<>>
    /\ last.op = "get_match"
    /\ last.outcome = "None"
    /\ \E m1, m2 \in Methods, v \in Paths :
        /\ m1 # m2
        /\ ~NoneMatches(m1, v)
        /\ ~get_match(routes, fallback, m2, v).found

\* C9: assigning a Route stores it as is, assigning a callable stores a Route
\* with pattern * bound to it, any other value raises ValueError and keeps
\* the previous fallback; no other operation changes the fallback.
C9_FallbackSetter ==
    [][/\ \A v \in FallbackValues :
            SetFallback(v) =>
                IF v.is_route
                THEN last'.outcome = "ok" /\ fallback' = <<v.route>>
                ELSE IF callable(v.value)
                THEN /\ last'.outcome = "ok"
                     /\ fallback' = <<[pattern |-> <<"*">>, handler |-> v.value,
                                      has_params |-> TRUE]>>
                ELSE last'.outcome = "ValueError" /\ fallback' = fallback
       /\ last'.op # "set_fallback" => fallback' = fallback]_vars

C9_Witness ==
    /\ last.op = "set_fallback"
    /\ last.outcome = "ValueError"
    /\ fallback # <<>>
    /\ ~fallback[1].has_params

\* the routes of the methods in the order of their first registration
RECURSIVE InRegistrationOrder(_)
InRegistrationOrder(ms) ==
    IF ms = <<>> THEN <<>> ELSE Bucket(Head(ms)) \o InRegistrationOrder(Tail(ms))

\* C10: iterating yields the routes grouped by method in the order in which
\* the methods first received a registration, each method's routes in
\* registration order, then the fallback.
C10_IterationOrder ==
    Router_iter(routes, fallback) = InRegistrationOrder(registered) \o fallback

(***************************************************************************)
(* Route alone: a Route is constructed from a pattern, then matched        *)
(* against paths and read.  last is the call record                        *)
(*   [op, pattern, outcome, route, value, ret, attr].                      *)
(***************************************************************************)
MaxPathLen == 4

PathChars == {"/", "a", "A"}

RoutePaths ==
    UNION {[1..k -> PathChars] : k \in 0..MaxPathLen}
    \cup { <<"/", "b">>, <<"/", "a", "/", "b">>, <<"/", "A", "/", "B">>, <<"/", "a", ":", "b">>,
           <<"/", "A", ":", "B">>, <<"/", "a", "/", "b", "/">>, <<"/", "a", "/", "b", "/", "a">>,
           <<"/", "{", "a", "}">>, <<"/", "b", "/", "a">> }

RoutePatterns ==
    { <<>>, <<"/">>, <<"/", "a">>, <<"/", "A">>, <<"/", "a", "/">>, <<"/", "a", "/", "b">>,
      <<"/", "a", ":", "b">>,
      <<"/", ":", "a">>, <<"/", ":", "A">>, <<"/", "a", "/", ":", "b">>, <<"/", ":", "a", "/", "b">>,
      <<"/", ":", "a", "/", ":", "b">>,
      <<"/", ":", "a", "/", ":", "a">>, <<"/", ":", "a", "/", ":", "b", "/", ":", "a">>,
      <<"/", ":", "A", "/", "b", "/", ":", "a">>,
      <<"/", "{", "a", "}">>, <<"/", "a", "/", "{", "b", "}">>,
      <<"*">>, <<"/", "a", "/", "*">>, <<"/", "*">>, <<"*", "*">>, <<"*", "/", "*">>,
      <<"/", ":", "a", "/", "*">>, <<"/", ":", "a", "*">>,
      Ellipsis }

NoRoute == [pattern |-> <<>>, handler |-> "", has_params |-> FALSE]

NoAttr == [error |-> "", value |-> <<>>]

\* Route.__slots__: reading any other attribute raises AttributeError
Route_slots == {"handler", "pattern", "has_params", "_rx"}

Route_getattr(route, name) ==
    IF name \notin Route_slots THEN [error |-> "AttributeError", value |-> <<>>]
    ELSE [error |-> "ok", value |-> IF name = "pattern" THEN route.pattern ELSE <<>>]

InitRoute ==
    /\ routes = <<>>
    /\ fallback = <<>>
    /\ registered = <<>>
    /\ last = [op |-> "init", pattern |-> <<>>, outcome |-> "", route |-> NoRoute,
               value |-> <<>>, ret |-> None, attr |-> NoAttr]

NewRoute(pattern, handler) ==
    /\ last' = [op |-> "Route", pattern |-> pattern, outcome |-> Route_error(pattern),
                route |-> IF Route_error(pattern) = "ok" THEN Route(pattern, handler) ELSE NoRoute,
                value |-> <<>>, ret |-> None, attr |-> NoAttr]
    /\ UNCHANGED <<routes, fallback, registered>>

MatchRoute(value) ==
    /\ last.outcome = "ok"
    /\ last' = [last EXCEPT !.op = "match", !.value = value,
                            !.ret = Route_match(last.route, value), !.attr = NoAttr]
    /\ UNCHANGED <<routes, fallback, registered>>

ReadRoute(name) ==
    /\ last.outcome = "ok"
    /\ last' = [last EXCEPT !.op = name, !.value = <<>>, !.ret = None,
                            !.attr = Route_getattr(last.route, name)]
    /\ UNCHANGED <<routes, fallback, registered>>

NextRoute ==
    \/ \E p \in RoutePatterns : NewRoute(p, "h1")
    \/ \E v \in RoutePaths : MatchRoute(v)
    \/ \E n \in {"pattern", "mustache_pattern"} : ReadRoute(n)

SpecRoute == InitRoute /\ [][NextRoute]_vars

\* the values of a successful match as a set of <<name, value>> pairs
Values(ret) == {<<ret.values[i].name, ret.values[i].value>> : i \in 1..Len(ret.values)}

\* C11: a candidate that a pattern matches still matches with one more
\* trailing slash (same handler), and, for a pattern without wildcard, no
\* longer matches with two more.
C11_TrailingSlash ==
    (last.op = "match" /\ last.ret.found) =>
        /\ Route_match(last.route, last.value \o <<"/">>).found
        /\ Route_match(last.route, last.value \o <<"/">>).handler = last.ret.handler
        /\ ~Contains(last.route.pattern, "*")
               => ~Route_match(last.route, last.value \o <<"/", "/">>).found

\* a pattern made of a static prefix ending in / followed by one wildcard
StaticChars(p) == \A i \in 1..Len(p) : p[i] \notin {"*", ":", "{", "}"}

WildcardLast(p) ==
    /\ Len(p) >= 2
    /\ p[Len(p)] = "*"
    /\ p[Len(p) - 1] = "/"
    /\ StaticChars(SubSeq(p, 1, Len(p) - 1))

Prefix(p) == SubSeq(p, 1, Len(p) - 1)

StartsWith(v, pre) == Len(v) >= Len(pre) /\ lower(SubSeq(v, 1, Len(pre))) = pre

TailName == <<"t", "a", "i", "l">>

\* C12: a pattern with a wildcard after a static prefix matches the prefix
\* followed by any suffix, the empty one included (for /a/* both /a and /a/
\* match with tail ""), binds the suffix to tail, and tail never starts
\* with a slash.
C12_WildcardSuffix ==
    (last.op = "match" /\ WildcardLast(last.route.pattern)) =>
        LET pre == Prefix(last.route.pattern)
            v   == last.value
            suffix == SubSeq(v, Len(pre) + 1, Len(v))
        IN  /\ (v # <<>> /\ lower(v) \in {pre, SubSeq(pre, 1, Len(pre) - 1)})
                   => (last.ret.found /\ Values(last.ret) = {<<TailName, <<>> >>})
            /\ (StartsWith(v, pre) /\ suffix # <<>> /\ suffix[1] # "/")
                   => (last.ret.found /\ Values(last.ret) = {<<TailName, suffix>>})
            /\ last.ret.found
                   => \A g \in Values(last.ret) : g[1] = TailName => (g[2] = <<>> \/ g[2][1] # "/")

\* the segments of s between slashes (as bytes.split(b'/'))
RECURSIVE Split(_)
Split(s) ==
    IF ~Contains(s, "/") THEN <<s>>
    ELSE LET i == CHOOSE k \in 1..Len(s) : s[k] = "/" /\ \A j \in 1..(k - 1) : s[j] # "/"
         IN  <<SubSeq(s, 1, i - 1)>> \o Split(SubSeq(s, i + 1, Len(s)))

\* a segment that is a named parameter, written :name or {name}
IsParam(seg) ==
    \/ Len(seg) >= 2 /\ seg[1] = ":" /\ StaticChars(Tail(seg))
    \/ Len(seg) >= 3 /\ seg[1] = "{" /\ seg[Len(seg)] = "}" /\ StaticChars(SubSeq(seg, 2, Len(seg) - 1))

ParamName(seg) == IF seg[1] = ":" THEN Tail(seg) ELSE SubSeq(seg, 2, Len(seg) - 1)

ParamIndexes(p) == {k \in 1..Len(Split(p)) : IsParam(Split(p)[k])}

\* a pattern of static and parameter segments with at least one parameter
\* and no name used twice
ParamPattern(p) ==
    /\ p # <<>>
    /\ p[1] = "/"
    /\ \A k \in 2..Len(Split(p)) : IsParam(Split(p)[k]) \/ (Split(p)[k] # <<>> /\ StaticChars(Split(p)[k]))
    /\ ParamIndexes(p) # {}
    /\ \A j, k \in ParamIndexes(p) : j # k => ParamName(Split(p)[j]) # ParamName(Split(p)[k])

\* the candidate v has the segments of p: static ones equal up to letter
\* case, a non-empty value in the place of every parameter
Fits(p, v) ==
    /\ Len(Split(v)) = Len(Split(p))
    /\ \A k \in 1..Len(Split(p)) :
        IF IsParam(Split(p)[k]) THEN Split(v)[k] # <<>> ELSE lower(Split(v)[k]) = Split(p)[k]

\* C13: for a pattern with parameters written :name or {name}, a candidate
\* with the same static segments (any letter case) and a non-empty value v in
\* the place of each parameter matches with name -> v for each parameter; the
\* values contain no slash; a candidate with a missing or extra segment does
\* not match.
C13_NamedParameters ==
    (last.op = "match" /\ ParamPattern(last.route.pattern)) =>
        LET p == last.route.pattern
            v == last.value
        IN  /\ Fits(p, v) =>
                /\ last.ret.found
                /\ last.ret.has_values
                /\ Values(last.ret) = {<<ParamName(Split(p)[k]), Split(v)[k]>> : k \in ParamIndexes(p)}
            /\ Len(Split(v)) # Len(Split(p)) => ~last.ret.found
            /\ last.ret.found => \A g \in Values(last.ret) : ~Contains(g[2], "/")

\* a pattern with neither a wildcard nor a named parameter
Parameterless(p) == ~Contains(p, "*") /\ ParamIndexes(p) = {}

\* C14: a route whose pattern has no parameters matches every candidate
\* equal to the pattern up to letter case, and the match has no values.
C14_CaseInsensitive ==
    (last.op = "match" /\ Parameterless(last.route.pattern)
                       /\ lower(last.value) = last.route.pattern)
        => (last.ret.found /\ ~last.ret.has_values)

\* the declared name of the function h1, and the pattern derived from a name
DeclaredName(h) == <<"a", "_", "b">>

DerivedPattern(name) ==
    IF name = <<"i", "n", "d", "e", "x">> THEN <<"/">>
    ELSE <<"/">> \o [i \in 1..Len(name) |-> IF name[i] = "_" THEN "-" ELSE name[i]]

\* C15: a handler registered with ... in place of the pattern gets the
\* pattern derived from its declared name: / for index, otherwise / and the
\* name with every underscore replaced by a hyphen.
C15_DerivedPattern ==
    (last.op = "Route" /\ last.pattern = Ellipsis) =>
        /\ last.outcome = "ok"
        /\ last.route.pattern = DerivedPattern(DeclaredName(last.route.handler))

\* the display form of a pattern: every /:name segment written /{name}
RECURSIVE JoinSegs(_)
JoinSegs(segs) ==
    IF Len(segs) = 1 THEN Head(segs) ELSE Head(segs) \o <<"/">> \o JoinSegs(Tail(segs))

Display(p) ==
    JoinSegs([k \in 1..Len(Split(p)) |->
                 IF IsParam(Split(p)[k]) /\ Split(p)[k][1] = ":"
                 THEN <<"{">> \o Tail(Split(p)[k]) \o <<"}">>
                 ELSE Split(p)[k]])

\* C16: a Route has a display form of its pattern, mustache_pattern, in which
\* every :name parameter is written {name} and the rest is unchanged.
C16_DisplayPattern ==
    last.op = "mustache_pattern" =>
        (last.attr.error = "ok" /\ last.attr.value = Display(last.route.pattern))

\* a pattern in which two segments are the same :name
ColonSeg(seg) == Len(seg) >= 2 /\ seg[1] = ":"

RepeatedParam(p) ==
    \E j, k \in 1..Len(Split(p)) :
        j < k /\ ColonSeg(Split(p)[j]) /\ Split(p)[j] = Split(p)[k]

StarCount(p) == Cardinality({i \in 1..Len(p) : p[i] = "*"})

\* C18: a pattern with more than one wildcard is rejected with a
\* construction error, and registering it adds nothing to the route table.
C18_TwoWildcardsRejected ==
    \A m \in Methods, p \in Patterns, h \in Handlers :
        StarCount(p) > 1 =>
            /\ add_outcome(routes, fallback, m, p, h) \in {"ValueError", "re.error"}
            /\ add_routes(routes, fallback, m, p, h) = routes

C18_Witness ==
    /\ last.op = "add"
    /\ last.outcome = "ValueError"
    /\ routes # <<>>
    /\ \E p \in Patterns : StarCount(p) > 1

\* C19: Router.add raises RouteDuplicate whenever a route already in the
\* method's sequence matches the new route's normalized pattern taken as a
\* path.
C19_DuplicateOnMatch ==
    \A m \in Methods, p \in Patterns, h \in Handlers :
        (Route_error(p) = "ok" /\ ~NoneMatches(m, Route_pattern(p)))
            => add_outcome(routes, fallback, m, p, h) = "RouteDuplicate"

\* C20: a successful Router.add appends the new route at the end of the
\* method's sequence and changes no other sequence nor the fallback; no
\* operation removes or reorders a registered route (every sequence stays a
\* prefix of what it becomes).
C20_AppendOnly ==
    [][/\ (last'.op = "add" /\ last'.outcome = "ok") =>
          \A m \in Methods, p \in Patterns, h \in Handlers :
            Add(m, p, h) =>
                /\ Items(routes', m) =
                       Append(Items(routes, m),
                              [pattern |-> lower(p), handler |-> h,
                               has_params |-> Contains(p, "*") \/ Contains(p, ":")])
                /\ \A m2 \in Methods \ {m} : Items(routes', m2) = Items(routes, m2)
                /\ fallback' = fallback
       /\ \/ routes' = routes
          \/ \A m \in Methods :
                /\ Len(Items(routes', m)) >= Len(Items(routes, m))
                /\ SubSeq(Items(routes', m), 1, Len(Items(routes, m))) = Items(routes, m)]_vars

C20_Witness ==
    /\ last.op = "add"
    /\ last.outcome = "ok"
    /\ \E m \in Methods : Len(Bucket(m)) = 2 /\ Bucket(m)[1] # Bucket(m)[2]

\* the number of named captures and wildcards of a pattern
CaptureCount(p) ==
    Cardinality({k \in 1..Len(Split(p)) : ColonSeg(Split(p)[k])}) + StarCount(p)

\* C21: a successful Route.match carries a mapping of values exactly when
\* the pattern has a named capture or a wildcard, the mapping has one entry
\* per parameter, and it is never empty.  Stated for the patterns written
\* without braces.
C21_ValuesIffParameters ==
    (last.op = "match" /\ last.ret.found /\ ~Contains(last.route.pattern, "{")) =>
        /\ last.ret.has_values <=> CaptureCount(last.route.pattern) > 0
        /\ last.ret.has_values =>
               /\ Len(last.ret.values) = CaptureCount(last.route.pattern)
               /\ last.ret.values # <<>>

\* C22: handlers are opaque: a registration that collides with a route of
\* the method never fails on the handler already registered (it ends in
\* RouteDuplicate whatever that handler is), and get_match returns a handler
\* that was registered.
C22_OpaqueHandlers ==
    /\ \A m \in Methods, p \in Patterns, h \in Handlers :
        (Route_error(p) = "ok" /\ ~NoneMatches(m, Route_pattern(p)))
            => add_outcome(routes, fallback, m, p, h) # "AttributeError"
    /\ \A m \in Methods, v \in Paths :
        LET r == get_match(routes, fallback, m, v)
        IN  r.found =>
                \/ \E i \in 1..Len(Bucket(m)) : Bucket(m)[i].handler = r.handler
                \/ fallback # <<>> /\ fallback[1].handler = r.handler

====
